---- MODULE Spec2Model ----
(***************************************************************************)
(* A model of two GPU pipeline plugins of Skia:                            *)
(*   - the advanced-blend compositor (src/gpu/effects/GrCustomXfermode.cpp)*)
(*   - the MSAA path renderer        (src/gpu/ops/GrMSAAPathRenderer.cpp)  *)
(*                                                                         *)
(* Six specifications share the module's variables:                        *)
(*   SpecXP    the compositor: factory, xfer processor and its queries     *)
(*   SpecGeom  the worst-case estimator and the geometry builder, applied  *)
(*             to every short verb sequence                                *)
(*   Spec      the draw batches: creation, merging and preparation         *)
(*   SpecPlan  the stencil pass sequencer: one call of onDrawPath,         *)
(*             onStencilPath, onGetStencilSupport or MSAAPathOp::Make      *)
(*   SpecMerge three batches offered to one another in every order         *)
(*   SpecBlend the coverage relationship of the blend equation, computed   *)
(*             for sampled colours, alphas and coverages                   *)
(***************************************************************************)
EXTENDS Integers, Sequences, FiniteSets, TLC

VARIABLES
    caps,      \* GrCaps / GrShaderCaps of the context (fixed after Init)
    xpf,       \* the CustomXPFactory last made (its fMode), or NoFactory
    xp,        \* the CustomXP last built by the factory, or NoXP
    xpOut,     \* inputs and result of the last call made on the compositor
    gIn,       \* SpecGeom: the path and the indexed flag handed to the builder
    gOut,      \* SpecGeom: the estimator's and the builder's results
    ops,       \* the MSAAPathOps of the op list, in submission order
    last       \* inputs and result of the last call made on the renderer

vars == <<caps, xpf, xp, xpOut, gIn, gOut, ops, last>>

None == "none"

(***************************************************************************)
(*                        PART 1 - BLEND COMPOSITOR                        *)
(***************************************************************************)

\* SkBlendMode values named by the source.
kLastCoeffMode == 14
kOverlay_Mode == 15
kLastSeparableMode == 24
kLastMode == 28
\* GrBlendEquation values named by the source.
kOverlay_GrBlendEquation == 4
kGrBlendEquationCnt == 18
\* static_cast<GrBlendEquation>(-1): "no hardware equation".
kNoHWEquation == -1
\* GrShaderCaps::kLast_AdvBlendEqInteraction
kLast_AdvBlendEqInteraction == 3

SkBlendModes == 0..kLastMode
GrBlendEquations == 0..(kGrBlendEquationCnt - 1)

\* Mutant: the lower bound of the range not strict.
IsSupportedMode_FromLastCoeff(mode) ==
    mode >= kLastCoeffMode /\ mode <= kLastMode

\* GrCustomXfermode::IsSupportedMode
IsSupportedMode(mode) ==
    mode > kLastCoeffMode /\ mode <= kLastMode

\* hw_blend_equation: mode + kOffset
kOffset == kOverlay_GrBlendEquation - kOverlay_Mode

hw_blend_equation(mode) == mode + kOffset

AdvancedEquations == {hw_blend_equation(m) : m \in {x \in SkBlendModes : IsSupportedMode(x)}}

\* The capability values a context can report.  advBlendEqInteraction is 0
\* (not supported) exactly when advanced blend equations are unsupported.
CapsValues ==
    [advancedBlendEquationSupport : BOOLEAN,
     advancedCoherentBlendEquationSupport : BOOLEAN,
     canUseEquations : {{}, AdvancedEquations, {kOverlay_GrBlendEquation}},
     advBlendEqInteraction : 0..kLast_AdvBlendEqInteraction,
     mustEnableSpecificAdvBlendEqs : BOOLEAN]

CapsOK(c) ==
    (c.advBlendEqInteraction > 0) <=> c.advancedBlendEquationSupport

canUseAdvancedBlendEquation(c, equation) == equation \in c.canUseEquations

\* GrPipelineAnalysis, the fields the compositor reads.
AnalysisValues ==
    [fUsesPLSDstRead : BOOLEAN,
     isFourChannelOutput : BOOLEAN,
     allStagesMultiplyInput : BOOLEAN,
     isSolidWhite : BOOLEAN]

\* can_use_hw_blend_equation
can_use_hw_blend_equation(equation, analysis, c) ==
    IF ~c.advancedBlendEquationSupport THEN FALSE
    ELSE IF analysis.fUsesPLSDstRead THEN FALSE
    ELSE IF analysis.isFourChannelOutput THEN FALSE
    ELSE IF canUseAdvancedBlendEquation(c, equation) THEN FALSE
    ELSE TRUE

\* CustomXP(mode, hwBlendEquation): the base class is default constructed and
\* does not read the destination colour.
CustomXP_HW(mode, hwBlendEquation) ==
    [fMode |-> mode, fHWBlendEquation |-> hwBlendEquation, fWillReadDstColor |-> FALSE]

\* CustomXP(dstTexture, hasMixedSamples, mode): INHERITED(dstTexture, true, ...)
CustomXP_Shader(mode) ==
    [fMode |-> mode, fHWBlendEquation |-> kNoHWEquation, fWillReadDstColor |-> TRUE]

hasHWBlendEquation(p) == kNoHWEquation # p.fHWBlendEquation

\* CustomXPFactory(mode)
CustomXPFactory(mode) ==
    [fMode |-> mode, fHWBlendEquation |-> hw_blend_equation(mode)]

\* CustomXPFactory::onCreateXferProcessor
onCreateXferProcessor(f, c, analysis) ==
    IF can_use_hw_blend_equation(f.fHWBlendEquation, analysis, c)
    THEN CustomXP_HW(f.fMode, f.fHWBlendEquation)
    ELSE CustomXP_Shader(f.fMode)

\* Mutant: the answer of can_use_hw_blend_equation returned as it is.
onWillReadDstColor_NotNegated(f, c, analysis) ==
    can_use_hw_blend_equation(f.fHWBlendEquation, analysis, c)

\* CustomXPFactory::onWillReadDstColor
onWillReadDstColor(f, c, analysis) ==
    ~can_use_hw_blend_equation(f.fHWBlendEquation, analysis, c)

\* CustomXP::createGLSLInstance: the SkASSERT it evaluates, and the XP the GLSL
\* instance is made for.
createGLSLInstance(p) ==
    [assertHolds |-> p.fWillReadDstColor # hasHWBlendEquation(p), xp |-> p]

\* Bitwise or of two naturals.
RECURSIVE BitOr(_, _)
BitOr(a, b) ==
    IF a = 0 THEN b
    ELSE IF b = 0 THEN a
    ELSE (IF (a % 2 = 1) \/ (b % 2 = 1) THEN 1 ELSE 0) + 2 * BitOr(a \div 2, b \div 2)

\* (int)mode << 3; the key is 32 bits wide and mode is at most kLastMode, so no bit is lost.
ShiftLeft3(x) == x * 8

\* Mutant: the interaction class left out of the key.
GenKey_NoInteraction(p, c) ==
    IF ~hasHWBlendEquation(p) \/ c.mustEnableSpecificAdvBlendEqs
    THEN ShiftLeft3(p.fMode)
    ELSE 0

\* GLCustomXP::GenKey
GenKey(p, c) ==
    LET k0 == 0
        k1 == IF hasHWBlendEquation(p) THEN BitOr(k0, c.advBlendEqInteraction) ELSE k0
        k2 == IF ~hasHWBlendEquation(p) \/ c.mustEnableSpecificAdvBlendEqs
              THEN BitOr(k1, ShiftLeft3(p.fMode))
              ELSE k1
    IN  k2

\* CustomXP::onIsEqual
onIsEqual(p, s) ==
    p.fMode = s.fMode /\ p.fHWBlendEquation = s.fHWBlendEquation

\* Mutant: the coherence test dropped.
onXferBarrier_Always(p, c) ==
    IF hasHWBlendEquation(p) THEN "kBlend_GrXferBarrierType" ELSE "kNone_GrXferBarrierType"

\* CustomXP::onXferBarrier
onXferBarrier(p, c) ==
    IF hasHWBlendEquation(p) /\ ~c.advancedCoherentBlendEquationSupport
    THEN "kBlend_GrXferBarrierType"
    ELSE "kNone_GrXferBarrierType"

\* Mutant: coverage ignored without asking for a hardware equation.
onGetOptimizations_AnyXP(p, analysis) ==
    (IF analysis.allStagesMultiplyInput THEN {"kCanTweakAlphaForCoverage_OptFlag"} ELSE {})
    \cup
    (IF analysis.isSolidWhite THEN {"kIgnoreCoverage_OptFlag"} ELSE {})

\* CustomXP::onGetOptimizations: the set of flags returned.
onGetOptimizations(p, analysis) ==
    (IF analysis.allStagesMultiplyInput THEN {"kCanTweakAlphaForCoverage_OptFlag"} ELSE {})
    \cup
    (IF hasHWBlendEquation(p) /\ analysis.isSolidWhite THEN {"kIgnoreCoverage_OptFlag"} ELSE {})

NoFactory == [fMode |-> -1, fHWBlendEquation |-> kNoHWEquation]
NoXP == [fMode |-> -1, fHWBlendEquation |-> kNoHWEquation, fWillReadDstColor |-> FALSE]
NoCall == [op |-> None]
\* The capabilities of a context without advanced blending (the value of caps in
\* the specifications that do not exercise the compositor).
NoCaps ==
    [advancedBlendEquationSupport |-> FALSE, advancedCoherentBlendEquationSupport |-> FALSE,
     canUseEquations |-> {}, advBlendEqInteraction |-> 0,
     mustEnableSpecificAdvBlendEqs |-> FALSE]
NoGeomIn == [path |-> <<>>, isIndexed |-> FALSE]
NoGeomOut == [done |-> FALSE]

\* GrCustomXfermode::MakeXPFactory
MakeXPFactory(mode) ==
    IF ~IsSupportedMode(mode) THEN NoFactory ELSE CustomXPFactory(mode)

----
\* Actions of SpecXP.

XPFrame == UNCHANGED <<gIn, gOut, ops, last>>

\* One paint is followed: its factory is made once (a refused mode may be retried).
DoMakeXPFactory ==
    \E mode \in SkBlendModes :
        /\ xpf = NoFactory
        /\ xpf' = MakeXPFactory(mode)
        /\ xpOut' = [op |-> "MakeXPFactory", mode |-> mode, result |-> MakeXPFactory(mode)]
        /\ UNCHANGED <<caps, xp>>
        /\ XPFrame

DoCreateXferProcessor ==
    \E analysis \in AnalysisValues :
        /\ xpf # NoFactory
        /\ xp' = onCreateXferProcessor(xpf, caps, analysis)
        /\ xpOut' = [op |-> "onCreateXferProcessor", factory |-> xpf, analysis |-> analysis,
                     result |-> onCreateXferProcessor(xpf, caps, analysis),
                     willReadDst |-> onWillReadDstColor(xpf, caps, analysis)]
        /\ UNCHANGED <<caps, xpf>>
        /\ XPFrame

DoGenKey ==
    /\ xp # NoXP
    /\ xpOut' = [op |-> "GenKey", xp |-> xp, key |-> GenKey(xp, caps)]
    /\ UNCHANGED <<caps, xpf, xp>>
    /\ XPFrame

DoXferBarrier ==
    /\ xp # NoXP
    /\ xpOut' = [op |-> "onXferBarrier", xp |-> xp, barrier |-> onXferBarrier(xp, caps)]
    /\ UNCHANGED <<caps, xpf, xp>>
    /\ XPFrame

DoCreateGLSLInstance ==
    /\ xp # NoXP
    /\ xpOut' = [op |-> "createGLSLInstance", xp |-> xp,
                 assertHolds |-> createGLSLInstance(xp).assertHolds]
    /\ UNCHANGED <<caps, xpf, xp>>
    /\ XPFrame

DoGetOptimizations ==
    \E analysis \in AnalysisValues :
        /\ xp # NoXP
        /\ xpOut' = [op |-> "onGetOptimizations", xp |-> xp, analysis |-> analysis,
                     flags |-> onGetOptimizations(xp, analysis)]
        /\ UNCHANGED <<caps, xpf, xp>>
        /\ XPFrame

InitXP ==
    /\ caps \in {c \in CapsValues : CapsOK(c)}
    /\ xpf = NoFactory
    /\ xp = NoXP
    /\ xpOut = NoCall
    /\ gIn = NoGeomIn
    /\ gOut = NoGeomOut
    /\ ops = <<>>
    /\ last = NoCall

NextXP ==
    \/ DoMakeXPFactory
    \/ DoCreateXferProcessor
    \/ DoGenKey
    \/ DoXferBarrier
    \/ DoCreateGLSLInstance
    \/ DoGetOptimizations

SpecXP == InitXP /\ [][NextXP]_vars

(***************************************************************************)
(*              PART 2 - WORST-CASE ESTIMATOR, GEOMETRY BUILDER            *)
(***************************************************************************)

\* Bounds of the model.
MaxVerbs == 4          \* longest verb sequence SpecGeom enumerates
MaxConicPow2 == 1      \* a conic flattens into 2^p quads, p in 0..MaxConicPow2
MaxCubicQuads == 2     \* a cubic flattens into 1..MaxCubicQuads quads

\* SK_MaxU16, and the width of the uint16_t casts.
SK_MaxU16 == 65535
U16(x) == (x + (SK_MaxU16 + 1)) % (SK_MaxU16 + 1)

RECURSIVE Pow2(_)
Pow2(n) == IF n = 0 THEN 1 ELSE 2 * Pow2(n - 1)

\* What SkPath::Iter::next returns, run-length encoded.  An entry stands for
\* one verb, except that kLines(n) stands for n kLine_Verb returned in a row.
\* n is also the flattening result both routines obtain for a curve:
\* converter.countQuads() for a conic, quadPts.count() for a cubic (three
\* points per quad).
Verb(v, n) == [verb |-> v, n |-> n]
kMove == Verb("kMove_Verb", 0)
kLines(n) == Verb("kLine_Verb", n)
kLine == kLines(1)
kQuad == Verb("kQuad_Verb", 0)
kClose == Verb("kClose_Verb", 0)
kConic(quads) == Verb("kConic_Verb", quads)
kCubic(quads) == Verb("kCubic_Verb", 3 * quads)

Verbs ==
    {kMove, kLine, kQuad, kClose}
    \cup {kConic(Pow2(p)) : p \in 0..MaxConicPow2}
    \cup {kCubic(q) : q \in 1..MaxCubicQuads}

\* The verb sequences of at most n verbs.  SkPath starts every contour with a
\* move, so the iterator's first verb is always kMove_Verb.
RECURSIVE VerbSeqs(_)
VerbSeqs(n) ==
    IF n = 0 THEN {<<>>}
    ELSE IF n = 1 THEN {<<>>, <<kMove>>}
    ELSE LET shorter == VerbSeqs(n - 1)
         IN  shorter \cup {Append(p, v) : p \in {q \in shorter : Len(q) = n - 1}, v \in Verbs}

\* One iteration of the switch in ComputeWorstCasePointCount: the counts after
\* verb v.  The conic case has no break and falls through into the quad case.
WorstCaseStep(c, v, first) ==
    CASE v.verb = "kLine_Verb" ->
            \* linePointCount += 1, for each of the v.n line verbs
            [c EXCEPT !.linePointCount = @ + v.n]
      [] v.verb = "kConic_Verb" ->
            [c EXCEPT !.linePointCount = @ + v.n + 1,
                      !.quadPointCount = @ + 3 * v.n + 3]
      [] v.verb = "kQuad_Verb" ->
            [c EXCEPT !.linePointCount = @ + 1,
                      !.quadPointCount = @ + 3]
      [] v.verb = "kCubic_Verb" ->
            [c EXCEPT !.linePointCount = @ + (v.n \div 3),
                      !.quadPointCount = @ + v.n]
      [] v.verb = "kMove_Verb" ->
            [c EXCEPT !.linePointCount = @ + 1,
                      !.subpaths = IF ~first THEN @ + 1 ELSE @]
      [] OTHER -> c

RECURSIVE WorstCaseLoop(_, _, _)
WorstCaseLoop(c, path, i) ==
    IF i > Len(path) THEN c
    ELSE WorstCaseLoop(WorstCaseStep(c, path[i], i = 1), path, i + 1)

\* Mutant: the cubic's line points forgotten.
ComputeWorstCasePointCount_NoCubicLines(path) ==
    LET c == WorstCaseLoop([subpaths |-> 1, linePointCount |-> 0, quadPointCount |-> 0], path, 1)
        cubics == {i \in 1..Len(path) : path[i].verb = "kCubic_Verb"}
    IN  [c EXCEPT !.linePointCount = @ - Cardinality(cubics)]

\* MSAAPathOp::ComputeWorstCasePointCount
ComputeWorstCasePointCount(path) ==
    WorstCaseLoop([subpaths |-> 1, linePointCount |-> 0, quadPointCount |-> 0], path, 1)

\* The vertex and index streams onPrepareDraws hands to createGeom.  Vertices
\* carry no datum the claims read, so a stream of vertices is its cursor
\* (nextVertex - vertices).  The index streams are kept run-length encoded:
\*   a line run [fan, first, n] is the n triples (fan, first+j, first+j+1),
\*   a quad run [first, n] is the n indices first, first+1, ...,
\* each value stored as a uint16_t.  assertsHold is the conjunction of the
\* SkASSERTs evaluated so far.
Buffers(maxLine, maxQuad) ==
    [lineVertexCount |-> 0, lineVerticesEnd |-> maxLine, lineIndices |-> <<>>,
     quadVertexCount |-> 0, quadVerticesEnd |-> maxQuad, quadIndices |-> <<>>,
     assertsHold |-> TRUE]

LineRun(fan, first, n) == [fan |-> fan, first |-> first, n |-> n]
QuadRun(first, n) == [first |-> first, n |-> n]

\* The indices a stream holds, one by one.
RECURSIVE LineIndexStream(_)
LineIndexStream(runs) ==
    IF runs = <<>> THEN <<>>
    ELSE LET r == Head(runs)
         IN  [i \in 1..(3 * r.n) |->
                 CASE (i - 1) % 3 = 0 -> r.fan
                   [] (i - 1) % 3 = 1 -> U16(r.first + ((i - 1) \div 3))
                   [] OTHER -> U16(r.first + ((i - 1) \div 3) + 1)]
             \o LineIndexStream(Tail(runs))

RECURSIVE QuadIndexStream(_)
QuadIndexStream(runs) ==
    IF runs = <<>> THEN <<>>
    ELSE LET r == Head(runs)
         IN  [i \in 1..r.n |-> U16(r.first + i - 1)] \o QuadIndexStream(Tail(runs))

\* The cursors nextIndex - indices.
RECURSIVE LineIndexCount(_)
LineIndexCount(runs) ==
    IF runs = <<>> THEN 0 ELSE 3 * Head(runs).n + LineIndexCount(Tail(runs))

RECURSIVE QuadIndexCount(_)
QuadIndexCount(runs) ==
    IF runs = <<>> THEN 0 ELSE Head(runs).n + QuadIndexCount(Tail(runs))

\* append_contour_edge_indices
append_contour_edge_indices(fanCenterIdx, edgeV0Idx, b) ==
    [b EXCEPT !.lineIndices = Append(@, LineRun(fanCenterIdx, edgeV0Idx, 1))]

\* add_quad
add_quad(b, indexed, subpathLineIdxStart) ==
    LET a1 == b.lineVertexCount < b.lineVerticesEnd
        prevIdx == U16(b.lineVertexCount - 1)
        b1 == IF indexed /\ prevIdx > subpathLineIdxStart
              THEN append_contour_edge_indices(subpathLineIdxStart, prevIdx, b)
              ELSE b
        b2 == [b1 EXCEPT !.lineVertexCount = @ + 1]
        a2 == b2.quadVertexCount + 2 < b2.quadVerticesEnd
        b3 == [b2 EXCEPT !.quadVertexCount = @ + 3]
        offset == U16(U16(b3.quadVertexCount) - 3)
        b4 == IF indexed
              THEN [b3 EXCEPT !.quadIndices = Append(@, QuadRun(offset, 3))]
              ELSE b3
    IN  [b4 EXCEPT !.assertsHold = @ /\ a1 /\ a2]

\* The same call made n times, one after the other (the loops of the conic and
\* cubic cases).
RECURSIVE add_quads_loop(_, _, _, _)
add_quads_loop(b, n, indexed, subpathLineIdxStart) ==
    IF n <= 0 THEN b
    ELSE LET h == add_quads_loop(b, n - 1, indexed, subpathLineIdxStart)
         IN  IF h.lineVertexCount >= 0
             THEN add_quad(h, indexed, subpathLineIdxStart)
             ELSE h

\* The kLine_Verb case of createGeom.
add_line(b, isIndexed, subpathIdxStart) ==
    LET prevIdx == U16(b.lineVertexCount - 1)
        b1 == IF isIndexed /\ prevIdx > subpathIdxStart
              THEN append_contour_edge_indices(subpathIdxStart, prevIdx, b)
              ELSE b
    IN  [b1 EXCEPT !.assertsHold = @ /\ (b1.lineVertexCount < b1.lineVerticesEnd),
                   !.lineVertexCount = @ + 1]

\* The kLine_Verb case taken n times, one after the other.
RECURSIVE add_lines_loop(_, _, _, _)
add_lines_loop(b, n, isIndexed, subpathIdxStart) ==
    IF n <= 0 THEN b
    ELSE LET h == add_lines_loop(b, n - 1, isIndexed, subpathIdxStart)
         IN  IF h.lineVertexCount >= 0
             THEN add_line(h, isIndexed, subpathIdxStart)
             ELSE h

\* Mutant: an edge triple appended for every endpoint, the first of a contour included.
EdgeIndexRuns_FromFanCenter(v, n, start) ==
    IF n <= 0 THEN <<>> ELSE <<LineRun(start, U16(v - 1), n)>>

\* The loops above as one step each (RunsAgreeWithLoops states that they agree).
\* While n endpoint vertices are appended in a row to a line stream holding v
\* vertices, the vertex appended at position w adds the triple
\* (start, w - 1, w) when (uint16_t)(w - 1) > start.  When no position wraps,
\* these are the positions from max(v, start + 2) on: one run.
EdgeIndexRuns(v, n, start) ==
    IF v >= 1 /\ v + n - 1 <= SK_MaxU16 + 1
    THEN LET lo == IF v > start + 2 THEN v ELSE start + 2
         IN  IF lo > v + n - 1 THEN <<>> ELSE <<LineRun(start, lo - 1, v + n - lo)>>
    ELSE LET ws == SelectSeq([k \in 1..n |-> v + k - 1], LAMBDA w : U16(w - 1) > start)
         IN  [i \in 1..Len(ws) |-> LineRun(start, U16(ws[i] - 1), 1)]

add_quads(b, n, indexed, subpathLineIdxStart) ==
    IF n <= 0 THEN b
    ELSE [b EXCEPT
            !.assertsHold = @ /\ (b.lineVertexCount + n - 1 < b.lineVerticesEnd)
                              /\ (b.quadVertexCount + 3 * (n - 1) + 2 < b.quadVerticesEnd),
            !.lineIndices = IF indexed
                            THEN @ \o EdgeIndexRuns(b.lineVertexCount, n, subpathLineIdxStart)
                            ELSE @,
            !.lineVertexCount = @ + n,
            !.quadIndices = IF indexed
                            THEN Append(@, QuadRun(U16(b.quadVertexCount), 3 * n))
                            ELSE @,
            !.quadVertexCount = @ + 3 * n]

add_lines(b, n, isIndexed, subpathIdxStart) ==
    IF n <= 0 THEN b
    ELSE [b EXCEPT
            !.assertsHold = @ /\ (b.lineVertexCount + n - 1 < b.lineVerticesEnd),
            !.lineIndices = IF isIndexed
                            THEN @ \o EdgeIndexRuns(b.lineVertexCount, n, subpathIdxStart)
                            ELSE @,
            !.lineVertexCount = @ + n]

\* Two buffers hold the same streams.
SameStreams(x, y) ==
    /\ [x EXCEPT !.lineIndices = <<>>, !.quadIndices = <<>>]
         = [y EXCEPT !.lineIndices = <<>>, !.quadIndices = <<>>]
    /\ LineIndexStream(x.lineIndices) = LineIndexStream(y.lineIndices)
    /\ QuadIndexStream(x.quadIndices) = QuadIndexStream(y.quadIndices)

\* One iteration of the switch in createGeom: g = [b, subpathIdxStart].
CreateGeomStep(g, v, first, isIndexed) ==
    LET b == g.b
        start == g.subpathIdxStart
    IN
    CASE v.verb = "kMove_Verb" ->
            [b |-> [b EXCEPT !.assertsHold = @ /\ (b.lineVertexCount < b.lineVerticesEnd),
                             !.lineVertexCount = @ + 1],
             subpathIdxStart |-> IF ~first THEN U16(b.lineVertexCount) ELSE start]
      [] v.verb = "kLine_Verb" ->
            [b |-> add_lines(b, v.n, isIndexed, start), subpathIdxStart |-> start]
      [] v.verb = "kConic_Verb" ->
            [b |-> add_quads(b, v.n, isIndexed, start), subpathIdxStart |-> start]
      [] v.verb = "kQuad_Verb" ->
            [b |-> add_quad(b, isIndexed, start), subpathIdxStart |-> start]
      [] v.verb = "kCubic_Verb" ->
            \* for (i = 0; i < count; i += 3)
            [b |-> add_quads(b, (v.n + 2) \div 3, isIndexed, start), subpathIdxStart |-> start]
      [] OTHER -> g

RECURSIVE CreateGeomLoop(_, _, _, _)
CreateGeomLoop(g, path, i, isIndexed) ==
    IF i > Len(path) THEN g
    ELSE LET g1 == CreateGeomStep(g, path[i], i = 1, isIndexed)
         IN  IF g1.subpathIdxStart >= 0
             THEN CreateGeomLoop(g1, path, i + 1, isIndexed)
             ELSE g1

\* Mutant: the first fan centre of a path taken to be vertex 0 of the buffer.
createGeom_FanFromZero(b, path, isIndexed) ==
    CreateGeomLoop([b |-> b, subpathIdxStart |-> 0], path, 1, isIndexed).b

\* MSAAPathOp::createGeom: the buffers after the path's geometry is appended.
createGeom(b, path, isIndexed) ==
    CreateGeomLoop([b |-> b, subpathIdxStart |-> U16(b.lineVertexCount)],
                   path, 1, isIndexed).b

----
\* SpecGeom: the estimator and the builder applied to one path.

\* A path with several contours is always built indexed (MSAAPathOp::Make).
GeomInputs ==
    {g \in [path : VerbSeqs(MaxVerbs), isIndexed : BOOLEAN] :
        g.isIndexed \/ ComputeWorstCasePointCount(g.path).subpaths = 1}

DoGeom ==
    /\ ~gOut.done
    /\ LET w == ComputeWorstCasePointCount(gIn.path)
       IN  gOut' = [done |-> TRUE, worst |-> w,
                                 geom |-> createGeom(Buffers(w.linePointCount, w.quadPointCount),
                                                     gIn.path, gIn.isIndexed)]
    /\ UNCHANGED <<caps, xpf, xp, xpOut, gIn, ops, last>>

InitGeom ==
    /\ caps = NoCaps
    /\ xpf = NoFactory
    /\ xp = NoXP
    /\ xpOut = NoCall
    /\ gIn \in GeomInputs
    /\ gOut = NoGeomOut
    /\ ops = <<>>
    /\ last = NoCall

NextGeom == DoGeom

\* The one-step forms of the loops agree with the loops themselves, from the
\* buffers any path leaves behind and across the 16-bit wrap of the cursors.
MaxRun == 4

RunsAgreeWithLoops ==
    gOut.done =>
        \A n \in 0..MaxRun, indexed \in BOOLEAN, shift \in {0, SK_MaxU16 - 2, SK_MaxU16 + 1} :
            LET b == [gOut.geom EXCEPT !.lineVertexCount = @ + shift,
                                       !.quadVertexCount = @ + shift]
            IN  \A start \in {0, 1, U16(b.lineVertexCount), U16(b.lineVertexCount - 1),
                              U16(b.lineVertexCount - 2)} :
                    /\ SameStreams(add_quads(b, n, indexed, start),
                                   add_quads_loop(b, n, indexed, start))
                    /\ SameStreams(add_lines(b, n, indexed, start),
                                   add_lines_loop(b, n, indexed, start))

SpecGeom == InitGeom /\ [][NextGeom]_vars

(***************************************************************************)
(* Part 3: MSAAPathOp, the draw batch (src/gpu/ops/GrMSAAPathRenderer.cpp). *)
(***************************************************************************)

\* Bounds of the path catalog, in flattened segments.
MaxPaths == 2
BigCubicQuads == 911
ThirdCubicQuads == 889
BigLines == 10922

kMaxIndexedVertexCnt == SK_MaxU16 \div 3

\* SkMatrix values: one matrix per name, with the two attributes the code asks
\* for.
SkMatrix_I == [name |-> "I", hasPerspective |-> FALSE, invertible |-> TRUE]
ViewMatrices ==
    {SkMatrix_I,
     [name |-> "scale", hasPerspective |-> FALSE, invertible |-> TRUE],
     [name |-> "flat", hasPerspective |-> FALSE, invertible |-> FALSE],
     [name |-> "persp", hasPerspective |-> TRUE, invertible |-> TRUE],
     [name |-> "perspFlat", hasPerspective |-> TRUE, invertible |-> FALSE]}

cheapEqualTo(m, n) == m = n

\* SkRect values are kept as the set of rectangles they are the join of.
FillTypes == {"kWinding_FillType", "kEvenOdd_FillType",
              "kInverseWinding_FillType", "kInverseEvenOdd_FillType"}
SkPath(verbs, fillType) == [verbs |-> verbs, fFillType |-> fillType]
isInverseFillType(path) ==
    path.fFillType \in {"kInverseWinding_FillType", "kInverseEvenOdd_FillType"}
getBounds(path) == {<<"getBounds", path.verbs>>}
mapRect(m, rect) == {<<"mapRect", m.name, r>> : r \in rect}
join(r1, r2) == r1 \cup r2

\* GrPathRenderer::GetPathDevBounds: the device bounds of the path on the
\* render target.
GetPathDevBounds(path, viewMatrix) == {<<"GetPathDevBounds", path, viewMatrix.name>>}

kColor == "paint.getColor()"
nullptr == [isNull |-> TRUE]

\* The MSAAPathOp constructor.
MSAAPathOp(color, path, viewMatrix, devBounds, maxLineVertices, maxQuadVertices, isIndexed) ==
    [fPaths |-> <<[fColor |-> color, fPath |-> path]>>,
     fViewMatrix |-> viewMatrix,
     fMaxLineVertices |-> maxLineVertices,
     fMaxQuadVertices |-> maxQuadVertices,
     fIsIndexed |-> isIndexed,
     bounds |-> devBounds]

Make_IgnoreQuadCount(color, path, viewMatrix, devBounds) ==
    LET w == ComputeWorstCasePointCount(path.verbs)
        isIndexed == w.subpaths > 1
    IN  IF isIndexed /\ w.linePointCount > kMaxIndexedVertexCnt
        THEN nullptr
        ELSE MSAAPathOp(color, path, viewMatrix, devBounds,
                        w.linePointCount, w.quadPointCount, isIndexed)

\* MSAAPathOp::Make
Make(color, path, viewMatrix, devBounds) ==
    LET w == ComputeWorstCasePointCount(path.verbs)
        isIndexed == w.subpaths > 1
    IN  IF isIndexed /\ (w.linePointCount > kMaxIndexedVertexCnt
                         \/ w.quadPointCount > kMaxIndexedVertexCnt)
        THEN nullptr
        ELSE MSAAPathOp(color, path, viewMatrix, devBounds,
                        w.linePointCount, w.quadPointCount, isIndexed)

onCombineIfPossible_IgnoreLineSum(this, that, canCombine) ==
    IF ~canCombine \/ ~cheapEqualTo(this.fViewMatrix, that.fViewMatrix)
       \/ this.fMaxQuadVertices + that.fMaxQuadVertices > kMaxIndexedVertexCnt
    THEN [result |-> FALSE, this |-> this, that |-> that]
    ELSE [result |-> TRUE,
          this |-> [this EXCEPT !.fPaths = @ \o that.fPaths,
                                !.bounds = join(@, that.bounds),
                                !.fIsIndexed = TRUE,
                                !.fMaxLineVertices = @ + that.fMaxLineVertices,
                                !.fMaxQuadVertices = @ + that.fMaxQuadVertices],
          that |-> that]

onCombineIfPossible_KeepQuadCount(this, that, canCombine) ==
    IF ~canCombine \/ ~cheapEqualTo(this.fViewMatrix, that.fViewMatrix)
       \/ this.fMaxLineVertices + that.fMaxLineVertices > kMaxIndexedVertexCnt
       \/ this.fMaxQuadVertices + that.fMaxQuadVertices > kMaxIndexedVertexCnt
    THEN [result |-> FALSE, this |-> this, that |-> that]
    ELSE [result |-> TRUE,
          this |-> [this EXCEPT !.fPaths = @ \o that.fPaths,
                                !.bounds = join(@, that.bounds),
                                !.fIsIndexed = TRUE,
                                !.fMaxLineVertices = @ + that.fMaxLineVertices],
          that |-> that]

\* Mutant: the bounds joined before the capacity test.
onCombineIfPossible_JoinBeforeCapacityTest(this, that, canCombine) ==
    IF ~canCombine \/ ~cheapEqualTo(this.fViewMatrix, that.fViewMatrix)
    THEN [result |-> FALSE, this |-> this, that |-> that]
    ELSE IF this.fMaxLineVertices + that.fMaxLineVertices > kMaxIndexedVertexCnt
            \/ this.fMaxQuadVertices + that.fMaxQuadVertices > kMaxIndexedVertexCnt
    THEN [result |-> FALSE,
          this |-> [this EXCEPT !.bounds = join(@, that.bounds)],
          that |-> that]
    ELSE [result |-> TRUE,
          this |-> [this EXCEPT !.fPaths = @ \o that.fPaths,
                                !.bounds = join(@, that.bounds),
                                !.fIsIndexed = TRUE,
                                !.fMaxLineVertices = @ + that.fMaxLineVertices,
                                !.fMaxQuadVertices = @ + that.fMaxQuadVertices],
          that |-> that]

\* MSAAPathOp::onCombineIfPossible.  canCombine is the answer of
\* GrPipeline::CanCombine for the two batches' pipelines and bounds.  The
\* result holds the return value and both batches after the call.
onCombineIfPossible(this, that, canCombine) ==
    IF ~canCombine
    THEN [result |-> FALSE, this |-> this, that |-> that]
    ELSE IF ~cheapEqualTo(this.fViewMatrix, that.fViewMatrix)
    THEN [result |-> FALSE, this |-> this, that |-> that]
    ELSE IF this.fMaxLineVertices + that.fMaxLineVertices > kMaxIndexedVertexCnt
            \/ this.fMaxQuadVertices + that.fMaxQuadVertices > kMaxIndexedVertexCnt
    THEN [result |-> FALSE, this |-> this, that |-> that]
    ELSE [result |-> TRUE,
          this |-> [this EXCEPT !.fPaths = @ \o that.fPaths,
                                !.bounds = join(@, that.bounds),
                                !.fIsIndexed = TRUE,
                                !.fMaxLineVertices = @ + that.fMaxLineVertices,
                                !.fMaxQuadVertices = @ + that.fMaxQuadVertices],
          that |-> that]

\* The loop "fill buffers" of onPrepareDraws.
RECURSIVE FillBuffers(_, _, _)
FillBuffers(b, op, i) ==
    IF i > Len(op.fPaths) THEN b
    ELSE LET b1 == createGeom(b, op.fPaths[i].fPath.verbs, op.fIsIndexed)
         IN  IF b1.lineVertexCount >= 0 THEN FillBuffers(b1, op, i + 1) ELSE b1

\* The reservations onPrepareDraws asks its target for are named lineVertices,
\* lineIndices, quadVertices and quadIndices.
\* What the target can answer: a call that is answered null by the line-vertex
\* or the line-index reservation asks for nothing more.
TargetAnswers == {{}, {"lineVertices"}, {"lineIndices"}, {"quadVertices"}, {"quadIndices"},
                  {"quadVertices", "quadIndices"}}

Reserve(call, what, count, nullAt) ==
    [call |-> call, for |-> what, count |-> count, null |-> what \in nullAt]

PrepareResult(reservations, draws, b, assertsHold, ub, returned) ==
    [reservations |-> reservations, draws |-> draws, geom |-> b,
     assertsHold |-> assertsHold, ub |-> ub, returned |-> returned]

\* Mutant: the line mesh drawn as a fan without indices whatever the batch.
LineMesh_AlwaysFan(op, b) ==
    [gp |-> "lineGP", primitiveType |-> "kTriangleFan_GrPrimitiveType", indexed |-> FALSE,
     vertexCount |-> b.lineVertexCount, indexCount |-> 0]

\* The line draw and the quad draw handed to target->draw.
LineMesh(op, b) ==
    IF op.fIsIndexed
    THEN [gp |-> "lineGP", primitiveType |-> "kTriangles_GrPrimitiveType", indexed |-> TRUE,
          vertexCount |-> b.lineVertexCount, indexCount |-> LineIndexCount(b.lineIndices)]
    ELSE [gp |-> "lineGP", primitiveType |-> "kTriangleFan_GrPrimitiveType", indexed |-> FALSE,
          vertexCount |-> b.lineVertexCount, indexCount |-> 0]

QuadMesh(op, b) ==
    IF op.fIsIndexed
    THEN [gp |-> "quadGP", primitiveType |-> "kTriangles_GrPrimitiveType", indexed |-> TRUE,
          vertexCount |-> b.quadVertexCount, indexCount |-> QuadIndexCount(b.quadIndices)]
    ELSE [gp |-> "quadGP", primitiveType |-> "kTriangles_GrPrimitiveType", indexed |-> FALSE,
          vertexCount |-> b.quadVertexCount, indexCount |-> 0]

\* The second half of onPrepareDraws (lines 425-451): the quad vertices and
\* indices are copied into space reserved from the target.  Neither reservation
\* is tested before memcpy writes through it; writing through a null pointer
\* is undefined, and the build either stops there (crash) or carries on.
PrepareQuads(op, b, nullAt, crash, reservations, draws, assertsHold) ==
    LET rv == Reserve("makeVertexSpace", "quadVertices", b.quadVertexCount, nullAt)
        ri == Reserve("makeIndexSpace", "quadIndices", QuadIndexCount(b.quadIndices), nullAt)
    IN  IF rv.null /\ crash
        THEN PrepareResult(Append(reservations, rv), draws, b, assertsHold, TRUE, FALSE)
        ELSE IF ~op.fIsIndexed
        THEN PrepareResult(Append(reservations, rv), Append(draws, QuadMesh(op, b)), b,
                           assertsHold, rv.null, TRUE)
        ELSE IF ri.null /\ crash
        THEN PrepareResult(reservations \o <<rv, ri>>, draws, b, assertsHold, TRUE, FALSE)
        ELSE PrepareResult(reservations \o <<rv, ri>>, Append(draws, QuadMesh(op, b)), b,
                           assertsHold, rv.null \/ ri.null, TRUE)

\* MSAAPathOp::onPrepareDraws.  nullAt names the reservations the target
\* answers with null; crash is the outcome of the undefined write.  The result
\* lists the reservations asked for, the draws issued, the buffers built, the
\* conjunction of the SkASSERTs, whether undefined behaviour was executed and
\* whether the call returned.
onPrepareDraws(op, nullAt, crash) ==
    IF op.fMaxLineVertices = 0
    THEN PrepareResult(<<>>, <<>>, Buffers(0, 0), op.fMaxQuadVertices = 0, FALSE, TRUE)
    ELSE
    LET rlv == Reserve("makeVertexSpace", "lineVertices", op.fMaxLineVertices, nullAt)
        rli == Reserve("makeIndexSpace", "lineIndices", 3 * op.fMaxLineVertices, nullAt)
    IN  IF rlv.null
        THEN PrepareResult(<<rlv>>, <<>>, Buffers(0, 0), TRUE, FALSE, TRUE)
        ELSE IF op.fIsIndexed /\ rli.null
        THEN PrepareResult(<<rlv, rli>>, <<>>, Buffers(0, 0), TRUE, FALSE, TRUE)
        ELSE
        LET rs == IF op.fIsIndexed THEN <<rlv, rli>> ELSE <<rlv>>
            b == FillBuffers(Buffers(op.fMaxLineVertices, op.fMaxQuadVertices), op, 1)
            lineVertexOffset == b.lineVertexCount
            lineIndexOffset == LineIndexCount(b.lineIndices)
            quadVertexOffset == b.quadVertexCount
            quadIndexOffset == QuadIndexCount(b.quadIndices)
            asserts == /\ b.assertsHold
                       /\ lineVertexOffset <= op.fMaxLineVertices
                       /\ lineIndexOffset <= 3 * op.fMaxLineVertices
                       /\ quadVertexOffset <= op.fMaxQuadVertices
                       /\ quadIndexOffset <= 3 * op.fMaxQuadVertices
            draws == IF lineVertexOffset # 0 THEN <<LineMesh(op, b)>> ELSE <<>>
        IN  IF quadVertexOffset # 0
            THEN PrepareQuads(op, b, nullAt, crash, rs, draws, asserts)
            ELSE PrepareResult(rs, draws, b, asserts, FALSE, TRUE)

----
\* Spec: batches are made, merged and prepared.  ops is the op list of
\* MSAAPathOps still alive, last the latest call with its arguments and results.

\* The catalog of paths, as SkPath::Iter(path, true) walks them.
Triangle == <<kMove, kLines(3), kClose>>
TwoContours == <<kMove, kLines(2), kQuad, kClose, kMove, kConic(2), kLine, kClose>>
ThirdOfCapacity == <<kMove, kCubic(ThirdCubicQuads), kCubic(ThirdCubicQuads),
                     kCubic(ThirdCubicQuads)>>
HalfOfCapacity == <<kMove, kCubic(BigCubicQuads), kCubic(BigCubicQuads),
                    kCubic(BigCubicQuads), kCubic(BigCubicQuads)>>
HalfOfCapacityLines == <<kMove, kLines(BigLines)>>
OverCapacity == HalfOfCapacity \o Tail(HalfOfCapacity)
OverCapacityTwoContours == HalfOfCapacity \o HalfOfCapacity
OverCapacityLinesTwoContours == HalfOfCapacityLines \o HalfOfCapacityLines

BatchVerbs == {<<>>, Triangle, TwoContours, ThirdOfCapacity, HalfOfCapacity,
               HalfOfCapacityLines, OverCapacity, OverCapacityTwoContours,
               OverCapacityLinesTwoContours}
BatchPaths == {SkPath(v, "kWinding_FillType") : v \in BatchVerbs}
BatchViewMatrices == {m \in ViewMatrices : m.name \in {"I", "persp"}}

RECURSIVE PathsIn(_)
PathsIn(list) == IF list = <<>> THEN 0 ELSE Len(Head(list).fPaths) + PathsIn(Tail(list))

RemoveAt(seq, j) == [k \in 1..(Len(seq) - 1) |-> IF k < j THEN seq[k] ELSE seq[k + 1]]

BatchFrame == UNCHANGED <<caps, xpf, xp, xpOut, gIn, gOut>>

\* A caller builds a batch and adds it to the op list.
DoMake ==
    /\ PathsIn(ops) < MaxPaths
    /\ \E path \in BatchPaths, viewMatrix \in BatchViewMatrices :
          LET op == Make(kColor, path, viewMatrix, GetPathDevBounds(path, viewMatrix))
          IN  /\ ops' = IF op = nullptr THEN ops ELSE Append(ops, op)
              /\ last' = [op |-> "Make", path |-> path, viewMatrix |-> viewMatrix,
                          result |-> op]
    /\ BatchFrame

\* The op list offers one batch to another; a batch that was absorbed is dropped
\* from the list.
DoCombine ==
    /\ \E i \in 1..Len(ops), j \in 1..Len(ops), canCombine \in BOOLEAN :
          /\ i # j
          /\ LET r == onCombineIfPossible(ops[i], ops[j], canCombine)
             IN  /\ ops' = IF r.result THEN RemoveAt([ops EXCEPT ![i] = r.this], j) ELSE ops
                 /\ last' = [op |-> "onCombineIfPossible", this |-> ops[i], that |-> ops[j],
                             canCombine |-> canCombine, result |-> r.result,
                             thisAfter |-> r.this, thatAfter |-> r.that]
    /\ BatchFrame

\* The flush prepares one batch.  The target answers the reservations the call
\* makes; crash is chosen only where the call executes the undefined write.
DoPrepare ==
    /\ \E i \in 1..Len(ops), nullAt \in TargetAnswers, crash \in BOOLEAN :
          \E r \in {onPrepareDraws(ops[i], nullAt, crash)} :
              /\ nullAt \subseteq {r.reservations[k].for : k \in 1..Len(r.reservations)}
              /\ crash => r.ub
              /\ last' = [op |-> "onPrepareDraws", batch |-> ops[i], out |-> r]
    /\ UNCHANGED ops
    /\ BatchFrame

Init ==
    /\ caps = NoCaps
    /\ xpf = NoFactory
    /\ xp = NoXP
    /\ xpOut = NoCall
    /\ gIn = NoGeomIn
    /\ gOut = NoGeomOut
    /\ ops = <<>>
    /\ last = NoCall

Next ==
    \/ DoMake
    \/ DoCombine
    \/ DoPrepare

Spec == Init /\ [][Next]_vars

(***************************************************************************)
(* Part 4: GrMSAAPathRenderer, the stencil-pass sequencer.                 *)
(***************************************************************************)

\* A GrShape with a simple fill: its path and what knownToBeConvex answers.
GrShape(path, convex) == [path |-> path, knownToBeConvex |-> convex]
inverseFilled(shape) == isInverseFillType(shape.path)

single_pass_shape_IgnoreInverse(shape) == shape.knownToBeConvex

single_pass_shape_Never(shape) == FALSE

\* single_pass_shape
single_pass_shape(shape) ==
    IF ~inverseFilled(shape) THEN shape.knownToBeConvex ELSE FALSE

\* Mutant: the fill type not looked at.
onGetStencilSupport_ConvexOnly(shape) ==
    IF shape.knownToBeConvex THEN "kNoRestriction_StencilSupport"
    ELSE "kStencilOnly_StencilSupport"

\* GrMSAAPathRenderer::onGetStencilSupport
onGetStencilSupport(shape) ==
    IF single_pass_shape(shape) THEN "kNoRestriction_StencilSupport"
    ELSE "kStencilOnly_StencilSupport"

kMaxNumPasses == 2

\* SkMatrix::invert: the inverse of an invertible matrix.
Inverse(m) ==
    [name |-> <<"inverse", m.name>>, hasPerspective |-> m.hasPerspective, invertible |-> TRUE]

\* The pass plan of internalDrawPath (lines 581-637): passCount, passes,
\* reverse and lastPassIsBounds, or known = FALSE for an unknown fill type.
PassPlan(userStencilSettings, shape, stencilOnly) ==
    LET fill == shape.path.fFillType
        reverse == fill \in {"kInverseEvenOdd_FillType", "kInverseWinding_FillType"}
    IN
    IF single_pass_shape(shape)
    THEN [known |-> TRUE, passCount |-> 1, reverse |-> FALSE, lastPassIsBounds |-> FALSE,
          passes |-> IF stencilOnly THEN <<"gDirectToStencil">> ELSE <<userStencilSettings>>]
    ELSE IF fill \in {"kInverseEvenOdd_FillType", "kEvenOdd_FillType"}
    THEN IF stencilOnly
         THEN [known |-> TRUE, passCount |-> 1, reverse |-> reverse,
               lastPassIsBounds |-> FALSE, passes |-> <<"gEOStencilPass">>]
         ELSE [known |-> TRUE, passCount |-> 2, reverse |-> reverse,
               lastPassIsBounds |-> TRUE,
               passes |-> <<"gEOStencilPass",
                            IF reverse THEN "gInvEOColorPass" ELSE "gEOColorPass">>]
    ELSE IF fill \in {"kInverseWinding_FillType", "kWinding_FillType"}
    THEN IF stencilOnly
         THEN [known |-> TRUE, passCount |-> 1, reverse |-> reverse,
               lastPassIsBounds |-> FALSE, passes |-> <<"gWindStencilSeparateWithWrap">>]
         ELSE [known |-> TRUE, passCount |-> 2, reverse |-> reverse,
               lastPassIsBounds |-> TRUE,
               passes |-> <<"gWindStencilSeparateWithWrap",
                            IF reverse THEN "gInvWindColorPass" ELSE "gWindColorPass">>]
    ELSE [known |-> FALSE, passCount |-> 0, reverse |-> FALSE, lastPassIsBounds |-> FALSE,
          passes |-> <<>>]

\* Mutant: the colour XP factory left enabled in the stencil pass.
PassOp_ColorInEveryPass(paint, viewMatrix, path, devBounds, plan, p) ==
    IF plan.lastPassIsBounds /\ p = plan.passCount - 1
    THEN IF plan.reverse /\ ~(~viewMatrix.hasPerspective /\ viewMatrix.invertible)
                         /\ ~viewMatrix.invertible
         THEN [failed |-> TRUE]
         ELSE [failed |-> FALSE, kind |-> "rect", paint |-> paint,
               userStencil |-> plan.passes[p + 1], disableColorXPFactory |-> FALSE,
               op |-> [color |-> kColor,
                       viewMatrix |-> IF plan.reverse /\ viewMatrix.hasPerspective
                                      THEN SkMatrix_I ELSE viewMatrix,
                       rect |-> IF plan.reverse
                                THEN IF ~viewMatrix.hasPerspective /\ viewMatrix.invertible
                                     THEN mapRect(Inverse(viewMatrix), devBounds)
                                     ELSE devBounds
                                ELSE getBounds(path),
                       localMatrix |-> IF plan.reverse
                                          /\ ~(~viewMatrix.hasPerspective /\ viewMatrix.invertible)
                                       THEN Inverse(viewMatrix) ELSE SkMatrix_I]]
    ELSE LET op == Make(kColor, path, viewMatrix, devBounds)
         IN  IF op = nullptr THEN [failed |-> TRUE]
             ELSE [failed |-> FALSE, kind |-> "path", paint |-> paint,
                   userStencil |-> plan.passes[p + 1],
                   disableColorXPFactory |-> FALSE, op |-> op]

\* The body of the loop over the passes (lines 645-685): what pass p adds to
\* the render target context, or failed = TRUE where the loop returns false.
PassOp(paint, viewMatrix, path, devBounds, plan, p) ==
    IF plan.lastPassIsBounds /\ p = plan.passCount - 1
    THEN IF plan.reverse /\ ~(~viewMatrix.hasPerspective /\ viewMatrix.invertible)
                         /\ ~viewMatrix.invertible
         THEN [failed |-> TRUE]
         ELSE [failed |-> FALSE, kind |-> "rect", paint |-> paint,
               userStencil |-> plan.passes[p + 1], disableColorXPFactory |-> FALSE,
               op |-> [color |-> kColor,
                       viewMatrix |-> IF plan.reverse /\ viewMatrix.hasPerspective
                                      THEN SkMatrix_I ELSE viewMatrix,
                       rect |-> IF plan.reverse
                                THEN IF ~viewMatrix.hasPerspective /\ viewMatrix.invertible
                                     THEN mapRect(Inverse(viewMatrix), devBounds)
                                     ELSE devBounds
                                ELSE getBounds(path),
                       localMatrix |-> IF plan.reverse
                                          /\ ~(~viewMatrix.hasPerspective /\ viewMatrix.invertible)
                                       THEN Inverse(viewMatrix) ELSE SkMatrix_I]]
    ELSE LET op == Make(kColor, path, viewMatrix, devBounds)
         IN  IF op = nullptr THEN [failed |-> TRUE]
             ELSE [failed |-> FALSE, kind |-> "path", paint |-> paint,
                   userStencil |-> plan.passes[p + 1],
                   disableColorXPFactory |-> plan.passCount > 1, op |-> op]

RECURSIVE PassLoop(_, _, _, _, _, _, _)
PassLoop(added, paint, viewMatrix, path, devBounds, plan, p) ==
    IF p >= plan.passCount THEN [result |-> TRUE, added |-> added]
    ELSE LET a == PassOp(paint, viewMatrix, path, devBounds, plan, p)
         IN  IF a.failed THEN [result |-> FALSE, added |-> added]
             ELSE PassLoop(Append(added, a), paint, viewMatrix, path, devBounds, plan, p + 1)

\* GrMSAAPathRenderer::internalDrawPath: the return value, the plan and the
\* ops added to the render target context, in order.
internalDrawPath(paint, userStencilSettings, viewMatrix, shape, stencilOnly) ==
    LET path == shape.path
        plan == PassPlan(userStencilSettings, shape, stencilOnly)
    IN  IF ~plan.known
        THEN [result |-> FALSE, plan |-> plan, added |-> <<>>,
              assertsHold |-> TRUE]
        ELSE LET devBounds == GetPathDevBounds(path, viewMatrix)
                 r == PassLoop(<<>>, paint, viewMatrix, path, devBounds, plan, 0)
             IN  [result |-> r.result, plan |-> plan, added |-> r.added,
                  assertsHold |-> plan.passCount <= kMaxNumPasses]

\* GrMSAAPathRenderer::onDrawPath, for a shape whose style is a simple fill.
onDrawPath(args) ==
    internalDrawPath(args.fPaint, args.fUserStencilSettings, args.fViewMatrix,
                     args.fShape, FALSE)

\* GrMSAAPathRenderer::onStencilPath
onStencilPath(args) ==
    LET r == internalDrawPath("GrDisableColorXPFactory", "kUnused", args.fViewMatrix,
                              args.fShape, TRUE)
    IN  [r EXCEPT !.assertsHold = @ /\ ~inverseFilled(args.fShape)]

----
\* SpecPlan: one call of onDrawPath, onStencilPath, onGetStencilSupport or
\* MSAAPathOp::Make on an empty op list.

\* Two contours that fill the indexed capacity exactly, and by one vertex more.
AtCapacityTwoContours == <<kMove, kLines(kMaxIndexedVertexCnt - 3), kMove, kLine>>
OverCapacityByOneTwoContours == <<kMove, kLines(kMaxIndexedVertexCnt - 2), kMove, kLine>>

PlanVerbs == BatchVerbs \cup {AtCapacityTwoContours, OverCapacityByOneTwoContours}

Shapes == {GrShape(SkPath(v, f), c) : v \in PlanVerbs, f \in FillTypes, c \in BOOLEAN}

PathOpsOf(added) ==
    LET pathOps == SelectSeq(added, LAMBDA a : a.kind = "path")
    IN  [k \in 1..Len(pathOps) |-> pathOps[k].op]

\* MSAAPathOp::Make called on its own.
DoMakeOp ==
    /\ last = NoCall
    /\ \E v \in PlanVerbs, f \in FillTypes, viewMatrix \in ViewMatrices :
          LET path == SkPath(v, f)
              op == Make(kColor, path, viewMatrix, GetPathDevBounds(path, viewMatrix))
          IN  /\ ops' = IF op = nullptr THEN ops ELSE Append(ops, op)
              /\ last' = [op |-> "Make", path |-> path, viewMatrix |-> viewMatrix,
                          result |-> op]
    /\ BatchFrame

DoDrawPath ==
    /\ last = NoCall
    /\ \E shape \in Shapes, viewMatrix \in ViewMatrices :
          LET args == [fPaint |-> "args.fPaint",
                       fUserStencilSettings |-> "args.fUserStencilSettings",
                       fViewMatrix |-> viewMatrix, fShape |-> shape]
          IN  \E r \in {onDrawPath(args)} :
                 /\ last' = [op |-> "onDrawPath", args |-> args, out |-> r]
                 /\ ops' = ops \o PathOpsOf(r.added)
    /\ BatchFrame

DoStencilPath ==
    /\ last = NoCall
    /\ \E shape \in Shapes, viewMatrix \in ViewMatrices :
          LET args == [fViewMatrix |-> viewMatrix, fShape |-> shape]
          IN  \E r \in {onStencilPath(args)} :
                 /\ last' = [op |-> "onStencilPath", args |-> args, out |-> r]
                 /\ ops' = ops \o PathOpsOf(r.added)
    /\ BatchFrame

\* The clip stack asks what stencil support a shape needs.
DoGetStencilSupport ==
    /\ last = NoCall
    /\ \E shape \in Shapes :
          last' = [op |-> "onGetStencilSupport", shape |-> shape,
                   result |-> onGetStencilSupport(shape)]
    /\ UNCHANGED ops
    /\ BatchFrame

NextPlan ==
    \/ DoMakeOp
    \/ DoGetStencilSupport
    \/ DoDrawPath
    \/ DoStencilPath

SpecPlan == Init /\ [][NextPlan]_vars

----
\* SpecMerge: three batches, each made from one path, are offered to one
\* another in every order.

MergeVerbs == {Triangle, TwoContours, ThirdOfCapacity, HalfOfCapacity, HalfOfCapacityLines}
MergeBatches ==
    {Make(kColor, SkPath(v, "kWinding_FillType"), m,
          GetPathDevBounds(SkPath(v, "kWinding_FillType"), m)) :
        v \in MergeVerbs, m \in BatchViewMatrices}

InitMerge ==
    /\ caps = NoCaps
    /\ xpf = NoFactory
    /\ xp = NoXP
    /\ xpOut = NoCall
    /\ gIn = NoGeomIn
    /\ gOut = NoGeomOut
    /\ ops \in {<<a, b, c>> : a \in MergeBatches, b \in MergeBatches, c \in MergeBatches}
    /\ last = NoCall

NextMerge == DoCombine

SpecMerge == InitMerge /\ [][NextMerge]_vars

(***************************************************************************)
(*            PART 5 - COVERAGE MODULATION OF THE BLEND EQUATION           *)
(***************************************************************************)

\* Bound of the model: the number of steps in which a premultiplied colour
\* runs from 0 up to its alpha.
ColorSteps == 4

\* Exact fractions <<numerator, denominator>> in lowest terms; the values of the
\* blend equation are colour and alpha components in [0, 1].
RECURSIVE GCD(_, _)
GCD(a, b) == IF b = 0 THEN a ELSE GCD(b, a % b)

Frac(n, d) ==
    LET g == GCD(IF n < 0 THEN -n ELSE n, d)
    IN  <<n \div g, d \div g>>

FZero == Frac(0, 1)
FOne == Frac(1, 1)
FAdd(x, y) == Frac(x[1] * y[2] + y[1] * x[2], x[2] * y[2])
FSub(x, y) == Frac(x[1] * y[2] - y[1] * x[2], x[2] * y[2])
FMul(x, y) == Frac(x[1] * y[1], x[2] * y[2])
FDiv(x, y) == Frac(x[1] * y[2], x[2] * y[1])
FLessEq(x, y) == x[1] * y[2] <= y[1] * x[2]

\* B(Sc, Dc): the mode-specific function of the blend equation, on
\* non-premultiplied colours, for three of the advanced modes.
BlendOperators == {"kMultiply", "kDarken", "kDifference"}

B(mode, Sc, Dc) ==
    CASE mode = "kMultiply" -> FMul(Sc, Dc)
      [] mode = "kDarken" -> IF FLessEq(Sc, Dc) THEN Sc ELSE Dc
      [] mode = "kDifference" -> IF FLessEq(Sc, Dc) THEN FSub(Dc, Sc) ELSE FSub(Sc, Dc)

\* Mutant: B applied to the premultiplied colours.
blend_Premultiplied(mode, Sca, Dca, Sa, Da) ==
    IF Sa = FZero THEN Dca
    ELSE IF Da = FZero THEN Sca
    ELSE FAdd(FAdd(FMul(FMul(B(mode, Sca, Dca), Sa), Da),
                   FMul(Sca, FSub(FOne, Da))),
              FMul(Dca, FSub(FOne, Sa)))

\* blend(Sca, Dca, Sa, Da): Dca' in terms of premultiplied alpha.
blend(mode, Sca, Dca, Sa, Da) ==
    IF Sa = FZero THEN Dca
    ELSE IF Da = FZero THEN Sca
    ELSE FAdd(FAdd(FMul(FMul(B(mode, FDiv(Sca, Sa), FDiv(Dca, Da)), Sa), Da),
                   FMul(Sca, FSub(FOne, Da))),
              FMul(Dca, FSub(FOne, Sa)))

\* Dca'' = f * blend(Sca, Dca, Sa, Da) + (1-f) * Dca
CoverageModulatedColor(mode, f, Sca, Dca, Sa, Da) ==
    FAdd(FMul(f, blend(mode, Sca, Dca, Sa, Da)), FMul(FSub(FOne, f), Dca))

\* blend(Sa, Da) = Sa + Da - Sa * Da
blendAlpha(Sa, Da) == FSub(FAdd(Sa, Da), FMul(Sa, Da))

\* Da'' = f * blend(Sa, Da) + (1-f) * Da
CoverageModulatedAlpha(f, Sa, Da) ==
    FAdd(FMul(f, blendAlpha(Sa, Da)), FMul(FSub(FOne, f), Da))

\* The sampled coverages and alphas, and the premultiplied colours below an alpha.
CoverageValues == {FZero, Frac(3, 10), FOne}
SrcAlphaValues == {FZero, Frac(4, 10), FOne}
DstAlphaValues == {FZero, Frac(6, 10), FOne}
PremulColors(alpha) == {FMul(Frac(k, ColorSteps), alpha) : k \in 0..ColorSteps}

----
\* SpecBlend: the two sides of the coverage relationship, computed once for a
\* sampled input.

DoTweakAlphaForCoverage ==
    \E mode \in BlendOperators, f \in CoverageValues,
       Sa \in SrcAlphaValues, Da \in DstAlphaValues :
        \E Sca \in PremulColors(Sa), Dca \in PremulColors(Da) :
            /\ xpOut = NoCall
            /\ xpOut' = [op |-> "tweakAlphaForCoverage", mode |-> mode, f |-> f,
                         Sca |-> Sca, Dca |-> Dca, Sa |-> Sa, Da |-> Da,
                         tweakedColor |-> blend(mode, FMul(f, Sca), Dca, FMul(f, Sa), Da),
                         modulatedColor |-> CoverageModulatedColor(mode, f, Sca, Dca, Sa, Da),
                         tweakedAlpha |-> blendAlpha(FMul(f, Sa), Da),
                         modulatedAlpha |-> CoverageModulatedAlpha(f, Sa, Da)]
            /\ UNCHANGED <<caps, xpf, xp>>
            /\ XPFrame

InitBlend ==
    /\ caps = NoCaps
    /\ xpf = NoFactory
    /\ xp = NoXP
    /\ xpOut = NoCall
    /\ gIn = NoGeomIn
    /\ gOut = NoGeomOut
    /\ ops = <<>>
    /\ last = NoCall

NextBlend == DoTweakAlphaForCoverage

SpecBlend == InitBlend /\ [][NextBlend]_vars

(***************************************************************************)
(*                                 CLAIMS                                  *)
(***************************************************************************)

\* The xfer processors the factory can build under capabilities c.
BuildableXPs(c) ==
    {onCreateXferProcessor(CustomXPFactory(m), c, a) :
        m \in {x \in SkBlendModes : IsSupportedMode(x)}, a \in AnalysisValues}

\* C1: onCreateXferProcessor builds the hardware-equation CustomXP exactly when
\* the backend supports advanced equations, the draw has no PLS destination
\* read, coverage is not four-channel and canUseAdvancedBlendEquation(equation)
\* is true; otherwise it builds the shader fallback that reads the destination.
C1_HWExactlyWhenAllFourHold ==
    xpOut.op = "onCreateXferProcessor" =>
        LET f == xpOut.factory
            a == xpOut.analysis
            allFour == /\ caps.advancedBlendEquationSupport
                       /\ ~a.fUsesPLSDstRead
                       /\ ~a.isFourChannelOutput
                       /\ canUseAdvancedBlendEquation(caps, f.fHWBlendEquation)
        IN  xpOut.result = IF allFour THEN CustomXP_HW(f.fMode, f.fHWBlendEquation)
                           ELSE CustomXP_Shader(f.fMode)

\* C9: onXferBarrier reports a blend barrier exactly when the XP uses a hardware
\* blend equation and the backend's advanced blending is not coherent.
C9_BarrierIffHWAndIncoherent ==
    xpOut.op = "onXferBarrier" =>
        /\ xpOut.barrier \in {"kBlend_GrXferBarrierType", "kNone_GrXferBarrierType"}
        /\ (xpOut.barrier = "kBlend_GrXferBarrierType") <=>
               (xpOut.xp.fHWBlendEquation # kNoHWEquation
                /\ ~caps.advancedCoherentBlendEquationSupport)
        /\ xpOut.xp.fWillReadDstColor => xpOut.barrier = "kNone_GrXferBarrierType"

C9_Witness ==
    /\ xpOut.op = "onXferBarrier"
    /\ xpOut.xp.fHWBlendEquation # kNoHWEquation
    /\ xpOut.barrier = "kBlend_GrXferBarrierType"

\* C10: under fixed shader caps a hardware-equation XP and a shader-fallback XP
\* never share a key; a hardware key holds advBlendEqInteraction (1..3) in its
\* low three bits and the mode above them only when
\* mustEnableSpecificAdvBlendEqs; a fallback key always holds the mode, so
\* fallback XPs of different modes differ; equal XPs get equal keys.
C10_KeysDistinguish ==
    xpOut.op = "GenKey" =>
        LET p == xpOut.xp
            key == xpOut.key
        IN  /\ \A q \in BuildableXPs(caps) :
                  /\ (q.fHWBlendEquation # kNoHWEquation) # (p.fHWBlendEquation # kNoHWEquation)
                        => GenKey(q, caps) # key
                  /\ (q.fHWBlendEquation = kNoHWEquation /\ p.fHWBlendEquation = kNoHWEquation
                      /\ q.fMode # p.fMode) => GenKey(q, caps) # key
                  /\ onIsEqual(p, q) => GenKey(q, caps) = key
            /\ p.fHWBlendEquation # kNoHWEquation =>
                  /\ key % 8 = caps.advBlendEqInteraction
                  /\ key % 8 \in 1..kLast_AdvBlendEqInteraction
                  /\ key \div 8 = IF caps.mustEnableSpecificAdvBlendEqs THEN p.fMode ELSE 0
            /\ p.fHWBlendEquation = kNoHWEquation => key = p.fMode * 8

C10_Witness ==
    /\ xpOut.op = "GenKey"
    /\ xpOut.xp.fHWBlendEquation # kNoHWEquation
    /\ caps.mustEnableSpecificAdvBlendEqs
    /\ \E q \in BuildableXPs(caps) :
          q.fHWBlendEquation = kNoHWEquation /\ q.fMode = xpOut.xp.fMode

\* C2: for every path, the estimator's line and quad vertex counts are at least
\* the numbers of line and quad vertices createGeom writes for it.
C2_WorstCaseBoundsGeometry ==
    gOut.done =>
        /\ gOut.worst.linePointCount >= gOut.geom.lineVertexCount
        /\ gOut.worst.quadPointCount >= gOut.geom.quadVertexCount

C2_Witness ==
    /\ gOut.done
    /\ \E i \in 1..Len(gIn.path) : gIn.path[i].verb = "kCubic_Verb"
    /\ \E i \in 1..Len(gIn.path) : gIn.path[i].verb = "kConic_Verb"
    /\ gOut.geom.quadVertexCount > 0
    /\ gOut.worst.linePointCount > gOut.geom.lineVertexCount

\* C3: Make returns no batch exactly when the path has more than one subpath
\* and its worst-case line or quad vertex count exceeds 21845 (65535 / 3);
\* otherwise it returns a batch holding that one path, indexed iff the path has
\* more than one subpath; a path of one subpath is never rejected.
C3_MakeRejectsOnlyIndexedOverCapacity ==
    last.op = "Make" =>
        LET w == ComputeWorstCasePointCount(last.path.verbs)
            reject == /\ w.subpaths > 1
                      /\ (w.linePointCount > 21845 \/ w.quadPointCount > 21845)
        IN  /\ kMaxIndexedVertexCnt = 21845
            /\ (last.result = nullptr) <=> reject
            /\ ~reject =>
                  /\ last.result.fPaths = <<[fColor |-> kColor, fPath |-> last.path]>>
                  /\ last.result.fIsIndexed = (w.subpaths > 1)
                  /\ last.result.fMaxLineVertices = w.linePointCount
                  /\ last.result.fMaxQuadVertices = w.quadPointCount
                  /\ ops = <<last.result>>
            /\ w.subpaths = 1 => last.result # nullptr

C3_Witness ==
    /\ last.op = "Make"
    /\ last.result = nullptr
    /\ ComputeWorstCasePointCount(last.path.verbs).linePointCount <= kMaxIndexedVertexCnt

\* C4: onCombineIfPossible returns true exactly when GrPipeline::CanCombine
\* accepts the two batches, their view matrices are equal and the sums of their
\* worst-case line and quad vertex counts are each at most kMaxIndexedVertexCnt;
\* on success the absorbing batch holds its old paths followed by the other
\* batch's, the join of both bounds, fIsIndexed true and the summed counts.
C4_CombineExactlyWhenLegal ==
    last.op = "onCombineIfPossible" =>
        LET this == last.this
            that == last.that
            legal == /\ last.canCombine
                     /\ this.fViewMatrix = that.fViewMatrix
                     /\ this.fMaxLineVertices + that.fMaxLineVertices <= kMaxIndexedVertexCnt
                     /\ this.fMaxQuadVertices + that.fMaxQuadVertices <= kMaxIndexedVertexCnt
        IN  /\ last.result <=> legal
            /\ last.result =>
                  /\ last.thisAfter.fPaths = this.fPaths \o that.fPaths
                  /\ last.thisAfter.bounds = this.bounds \cup that.bounds
                  /\ last.thisAfter.fIsIndexed
                  /\ last.thisAfter.fMaxLineVertices
                        = this.fMaxLineVertices + that.fMaxLineVertices
                  /\ last.thisAfter.fMaxQuadVertices
                        = this.fMaxQuadVertices + that.fMaxQuadVertices
                  /\ last.thisAfter.fViewMatrix = this.fViewMatrix

C4_Witness ==
    /\ last.op = "onCombineIfPossible"
    /\ last.result
    /\ ~last.this.fIsIndexed
    /\ last.this.bounds # last.that.bounds
    /\ last.that.fMaxQuadVertices > 0

\* C5: if any reservation of onPrepareDraws (line vertices, line indices, quad
\* vertices, quad indices) is answered null, the call ends without having
\* issued a draw.
C5_NullReservationIssuesNoDraw ==
    last.op = "onPrepareDraws" =>
        ((\E k \in 1..Len(last.out.reservations) : last.out.reservations[k].null)
            => last.out.draws = <<>>)

\* C6: internalDrawPath plans one pass for a shape known convex and not
\* inverse-filled; for every other shape it plans two passes when stencilOnly
\* is false and one when it is true; the pass count is between 1 and
\* kMaxNumPasses.
C6_PassCounts ==
    last.op \in {"onDrawPath", "onStencilPath"} =>
        LET shape == last.args.fShape
            stencilOnly == last.op = "onStencilPath"
            inverse == shape.path.fFillType
                          \in {"kInverseWinding_FillType", "kInverseEvenOdd_FillType"}
            n == last.out.plan.passCount
        IN  /\ (shape.knownToBeConvex /\ ~inverse) => n = 1
            /\ ~(shape.knownToBeConvex /\ ~inverse) => n = IF stencilOnly THEN 1 ELSE 2
            /\ n \in 1..kMaxNumPasses
            /\ Len(last.out.plan.passes) = n
            /\ kMaxNumPasses = 2

C6_Witness ==
    /\ last.op = "onDrawPath"
    /\ last.args.fShape.knownToBeConvex
    /\ last.args.fShape.path.fFillType = "kInverseEvenOdd_FillType"
    /\ last.out.plan.passCount = 2

\* The rectangle op of the second pass of an inverse fill: the device bounds.
InverseFillCover(path, viewMatrix) ==
    IF ~viewMatrix.hasPerspective
    THEN [color |-> kColor, viewMatrix |-> viewMatrix,
          rect |-> mapRect(Inverse(viewMatrix), GetPathDevBounds(path, viewMatrix)),
          localMatrix |-> SkMatrix_I]
    ELSE [color |-> kColor, viewMatrix |-> SkMatrix_I,
          rect |-> GetPathDevBounds(path, viewMatrix),
          localMatrix |-> Inverse(viewMatrix)]

\* C7 as stated: through onDrawPath a triangle with winding fill gets a 2-pass
\* plan whose second pass draws the rectangle path.getBounds(); with inverse
\* winding fill the second pass draws the device bounds (mapped through the
\* inverse view matrix without perspective, under the identity with it).
C7_TriangleAlwaysTwoPasses ==
    (last.op = "onDrawPath" /\ last.args.fShape.path.verbs = Triangle) =>
        LET path == last.args.fShape.path
            added == last.out.added
        IN  /\ path.fFillType = "kWinding_FillType" =>
                  /\ last.out.plan.passCount = 2
                  /\ Len(added) = 2
                  /\ added[2].kind = "rect"
                  /\ added[2].op.rect = getBounds(path)
            /\ path.fFillType = "kInverseWinding_FillType" =>
                  /\ last.out.plan.passCount = 2
                  /\ Len(added) = 2
                  /\ added[2].kind = "rect"
                  /\ added[2].op = InverseFillCover(path, last.args.fViewMatrix)

\* C7, amended: through onDrawPath a triangle with winding fill gets the 2-pass
\* plan whose second pass draws the rectangle path.getBounds() only when the
\* shape is not known to be convex; when it is known convex, one pass is
\* planned, the path op under the caller's stencil settings, and no rectangle
\* is drawn.  With inverse winding fill the triangle gets two passes; when the
\* view matrix is invertible the second pass draws the device bounds (mapped
\* through the inverse view matrix without perspective; under the identity view
\* matrix, with the inverse as local matrix, with perspective); when it is not
\* invertible the call returns false and no second pass is added.
C7_TrianglePlan ==
    (last.op = "onDrawPath" /\ last.args.fShape.path.verbs = Triangle) =>
        LET shape == last.args.fShape
            path == shape.path
            vm == last.args.fViewMatrix
            added == last.out.added
        IN  /\ (path.fFillType = "kWinding_FillType" /\ shape.knownToBeConvex) =>
                  /\ last.out.plan.passCount = 1
                  /\ last.out.result
                  /\ Len(added) = 1
                  /\ added[1].kind = "path"
                  /\ added[1].userStencil = "args.fUserStencilSettings"
            /\ (path.fFillType = "kWinding_FillType" /\ ~shape.knownToBeConvex) =>
                  /\ last.out.plan.passCount = 2
                  /\ last.out.result
                  /\ Len(added) = 2
                  /\ added[1].kind = "path"
                  /\ added[2].kind = "rect"
                  /\ added[2].op.rect = getBounds(path)
                  /\ added[2].op.viewMatrix = vm
            /\ path.fFillType = "kInverseWinding_FillType" =>
                  /\ last.out.plan.passCount = 2
                  /\ last.out.plan.passes[2] = "gInvWindColorPass"
                  /\ vm.invertible =>
                        /\ last.out.result
                        /\ Len(added) = 2
                        /\ added[2].kind = "rect"
                        /\ added[2].op = InverseFillCover(path, vm)
                  /\ ~vm.invertible =>
                        /\ ~last.out.result
                        /\ Len(added) = 1
                        /\ added[1].kind = "path"

C7_Witness ==
    /\ last.op = "onDrawPath"
    /\ last.args.fShape.path.verbs = Triangle
    /\ last.args.fShape.path.fFillType = "kInverseWinding_FillType"
    /\ last.args.fViewMatrix.hasPerspective
    /\ Len(last.out.added) = 2
    /\ last.out.added[2].op.viewMatrix = SkMatrix_I

\* The sums of the worst-case counts over the batches of an op list.
RECURSIVE TotalLineVertices(_)
TotalLineVertices(list) ==
    IF list = <<>> THEN 0 ELSE Head(list).fMaxLineVertices + TotalLineVertices(Tail(list))

RECURSIVE TotalQuadVertices(_)
TotalQuadVertices(list) ==
    IF list = <<>> THEN 0 ELSE Head(list).fMaxQuadVertices + TotalQuadVertices(Tail(list))

C11_FactoryExactlyForAdvancedModes ==
    xpOut.op = "MakeXPFactory" =>
        LET mode == xpOut.mode
            f == xpOut.result
            advanced == mode \in (kLastCoeffMode + 1)..kLastMode
        IN  /\ IsSupportedMode(mode) <=> advanced
            /\ mode \in 0..kLastCoeffMode => ~IsSupportedMode(mode)
            /\ (f # NoFactory) <=> advanced
            /\ ~advanced => xpf = NoFactory
            /\ advanced =>
                  /\ f.fMode = mode
                  /\ xpf = f
                  /\ f.fHWBlendEquation = hw_blend_equation(mode)
                  /\ f.fHWBlendEquation \in kOverlay_GrBlendEquation..(kGrBlendEquationCnt - 1)
                  /\ \A other \in SkBlendModes :
                        (IsSupportedMode(other) /\ other # mode)
                            => hw_blend_equation(other) # f.fHWBlendEquation

C11_Witness ==
    /\ xpOut.op = "MakeXPFactory"
    /\ xpOut.mode = kLastMode
    /\ xpOut.result # NoFactory
    /\ xpOut.result.fHWBlendEquation = kGrBlendEquationCnt - 1

\* C12: for every sampled coverage f, source alpha Sa, destination alpha Da and
\* premultiplied colours Sca <= Sa, Dca <= Da, blending the coverage-scaled
\* source equals blending the unscaled source and interpolating with the
\* destination by f, for colour (each sampled operator B) and for alpha.
C12_CoverageTweakIdentity ==
    xpOut.op = "tweakAlphaForCoverage" =>
        /\ xpOut.tweakedColor = xpOut.modulatedColor
        /\ xpOut.tweakedAlpha = xpOut.modulatedAlpha

C12_Witness ==
    /\ xpOut.op = "tweakAlphaForCoverage"
    /\ xpOut.mode = "kMultiply"
    /\ xpOut.f = Frac(3, 10)
    /\ xpOut.Sa = Frac(4, 10)
    /\ xpOut.Da = Frac(6, 10)
    /\ xpOut.Sca = xpOut.Sa
    /\ xpOut.Dca = xpOut.Da
    /\ xpOut.tweakedColor \notin {xpOut.Dca, FMul(xpOut.f, xpOut.Sca)}

\* C13: onGetStencilSupport answers kNoRestriction_StencilSupport exactly for
\* the shapes that are not inverse-filled and known to be convex, and
\* kStencilOnly_StencilSupport for every other shape; a shape is answered
\* no-restriction exactly when onDrawPath plans a single pass under the caller's
\* own stencil settings for it (and onStencilPath the pass gDirectToStencil).
C13_StencilSupportMatchesPlan ==
    /\ last.op = "onGetStencilSupport" =>
          LET shape == last.shape
              simple == /\ shape.path.fFillType \in {"kWinding_FillType", "kEvenOdd_FillType"}
                        /\ shape.knownToBeConvex
          IN  /\ last.result = IF simple THEN "kNoRestriction_StencilSupport"
                               ELSE "kStencilOnly_StencilSupport"
              /\ \A viewMatrix \in ViewMatrices, user \in {"args.fUserStencilSettings"} :
                    LET plan == internalDrawPath("args.fPaint", user, viewMatrix,
                                                 shape, FALSE).plan
                    IN  (last.result = "kNoRestriction_StencilSupport")
                            <=> (plan.passCount = 1 /\ plan.passes = <<user>>)
    /\ last.op = "onDrawPath" =>
          ((last.out.plan.passCount = 1
            /\ last.out.plan.passes = <<last.args.fUserStencilSettings>>)
           <=> onGetStencilSupport(last.args.fShape) = "kNoRestriction_StencilSupport")
    /\ last.op = "onStencilPath" =>
          ((last.out.plan.passes = <<"gDirectToStencil">>)
           <=> onGetStencilSupport(last.args.fShape) = "kNoRestriction_StencilSupport")

C13_Witness ==
    /\ last.op = "onGetStencilSupport"
    /\ last.shape.knownToBeConvex
    /\ last.shape.path.fFillType = "kInverseWinding_FillType"
    /\ last.shape.path.verbs = Triangle
    /\ last.result = "kStencilOnly_StencilSupport"

\* C14: while onPrepareDraws fills the buffers of a batch that Make and
\* successful merges produced, every SkASSERT of add_quad, createGeom and
\* onPrepareDraws holds and the cursors end inside the reservations: at most
\* fMaxLineVertices line vertices, fMaxQuadVertices quad vertices,
\* 3 * fMaxLineVertices line indices and 3 * fMaxQuadVertices quad indices,
\* also when several merged paths are written one after another.
C14_CursorsStayInsideReservations ==
    last.op = "onPrepareDraws" =>
        LET op == last.batch
            g == last.out.geom
        IN  /\ last.out.assertsHold
            /\ g.assertsHold
            /\ g.lineVertexCount <= op.fMaxLineVertices
            /\ g.quadVertexCount <= op.fMaxQuadVertices
            /\ LineIndexCount(g.lineIndices) <= 3 * op.fMaxLineVertices
            /\ QuadIndexCount(g.quadIndices) <= 3 * op.fMaxQuadVertices

C14_Witness ==
    /\ last.op = "onPrepareDraws"
    /\ Len(last.batch.fPaths) = 2
    /\ last.batch.fPaths[1].fPath.verbs = ThirdOfCapacity
    /\ last.batch.fPaths[2].fPath.verbs = TwoContours
    /\ last.out.geom.quadVertexCount > 3 * ThirdCubicQuads
    /\ LineIndexCount(last.out.geom.lineIndices) > 3 * ThirdCubicQuads
    /\ last.out.assertsHold

\* The stencil pass and the colour pass internalDrawPath uses for a fill type.
StencilPassOf(fillType) ==
    IF fillType \in {"kEvenOdd_FillType", "kInverseEvenOdd_FillType"}
    THEN "gEOStencilPass" ELSE "gWindStencilSeparateWithWrap"

ColorPassOf(fillType) ==
    CASE fillType = "kEvenOdd_FillType" -> "gEOColorPass"
      [] fillType = "kInverseEvenOdd_FillType" -> "gInvEOColorPass"
      [] fillType = "kWinding_FillType" -> "gWindColorPass"
      [] fillType = "kInverseWinding_FillType" -> "gInvWindColorPass"

\* C15: when internalDrawPath plans two passes, pass 0 is the path op drawn
\* with the colour XP factory disabled under gEOStencilPass (even-odd fills,
\* inverse or not) or gWindStencilSeparateWithWrap (winding fills, inverse or
\* not); pass 1 is the only pass that draws a rectangle and the only one that
\* writes colour, under the inverse colour pass exactly when the fill is
\* inverse; the passes are added in index order, so the ops added are the
\* planned passes up to the first one that fails, and both when the call
\* returns true.
C15_TwoPassesStencilThenCover ==
    (last.op \in {"onDrawPath", "onStencilPath"} /\ last.out.plan.passCount = 2) =>
        LET plan == last.out.plan
            added == last.out.added
            path == last.args.fShape.path
            fill == path.fFillType
        IN  /\ last.op = "onDrawPath"
            /\ plan.passes = <<StencilPassOf(fill), ColorPassOf(fill)>>
            /\ (plan.passes[2] \in {"gInvEOColorPass", "gInvWindColorPass"})
                  <=> isInverseFillType(path)
            /\ Len(added) <= 2
            /\ last.out.result <=> Len(added) = 2
            /\ \A k \in 1..Len(added) :
                  /\ added[k].userStencil = plan.passes[k]
                  /\ (added[k].kind = "rect") <=> (k = 2)
                  /\ (added[k].kind = "path") <=> (k = 1)
                  /\ added[k].disableColorXPFactory <=> (k = 1)
                  /\ added[k].paint = last.args.fPaint
            /\ Len(added) >= 1 =>
                  /\ added[1].op.fPaths[1].fPath = path
                  /\ ops = <<added[1].op>>

C15_Witness ==
    /\ last.op = "onDrawPath"
    /\ last.out.plan.passCount = 2
    /\ last.out.result
    /\ last.args.fShape.path.fFillType = "kInverseEvenOdd_FillType"
    /\ last.args.fShape.path.verbs = TwoContours
    /\ Len(last.out.added) = 2
    /\ last.out.added[1].userStencil = "gEOStencilPass"
    /\ last.out.added[2].userStencil = "gInvEOColorPass"

\* C16: a call of onPrepareDraws that returns has issued at most two draws, the
\* line draw before the quad draw.  The line draw is issued exactly when a line
\* vertex was written: a triangle fan without indices for a non-indexed batch,
\* triangles with the recorded line indices for an indexed one.  The quad draw
\* is issued exactly when a quad vertex was written and is always triangles.
\* A batch whose fMaxLineVertices is 0 issues no draw and reserves nothing.
C16_LineDrawThenQuadDraw ==
    (last.op = "onPrepareDraws" /\ last.out.returned) =>
        LET op == last.batch
            g == last.out.geom
            draws == last.out.draws
            lines == {k \in 1..Len(draws) : draws[k].gp = "lineGP"}
            quads == {k \in 1..Len(draws) : draws[k].gp = "quadGP"}
        IN  /\ Len(draws) <= 2
            /\ lines \cup quads = 1..Len(draws)
            /\ Cardinality(lines) <= 1 /\ Cardinality(quads) <= 1
            /\ \A l \in lines, q \in quads : l < q
            /\ (lines # {}) <=> (g.lineVertexCount >= 1)
            /\ (quads # {}) <=> (g.quadVertexCount >= 1)
            /\ \A l \in lines :
                  /\ draws[l].vertexCount = g.lineVertexCount
                  /\ draws[l].indexed <=> op.fIsIndexed
                  /\ draws[l].primitiveType = IF op.fIsIndexed
                                              THEN "kTriangles_GrPrimitiveType"
                                              ELSE "kTriangleFan_GrPrimitiveType"
                  /\ draws[l].indexCount = IF op.fIsIndexed
                                           THEN LineIndexCount(g.lineIndices) ELSE 0
            /\ \A q \in quads :
                  /\ draws[q].vertexCount = g.quadVertexCount
                  /\ draws[q].indexed <=> op.fIsIndexed
                  /\ draws[q].primitiveType = "kTriangles_GrPrimitiveType"
                  /\ draws[q].indexCount = IF op.fIsIndexed
                                           THEN QuadIndexCount(g.quadIndices) ELSE 0
            /\ op.fMaxLineVertices = 0 =>
                  (draws = <<>> /\ last.out.reservations = <<>>)

C16_Witness ==
    /\ last.op = "onPrepareDraws"
    /\ last.out.returned
    /\ ~last.out.ub
    /\ last.batch.fIsIndexed
    /\ Len(last.batch.fPaths) = 2
    /\ Len(last.out.draws) = 2
    /\ last.out.draws[1].gp = "lineGP"
    /\ last.out.draws[1].indexCount > 0
    /\ last.out.draws[2].gp = "quadGP"

\* The line vertices one verb contributes.
LineVerticesOf(v) ==
    CASE v.verb = "kMove_Verb" -> 1
      [] v.verb = "kLine_Verb" -> v.n
      [] v.verb = "kQuad_Verb" -> 1
      [] v.verb = "kConic_Verb" -> v.n
      [] v.verb = "kCubic_Verb" -> v.n \div 3
      [] OTHER -> 0

\* The line vertices each subpath of a path contributes, subpath by subpath.
RECURSIVE SubpathLineVertices(_, _, _)
SubpathLineVertices(acc, path, i) ==
    IF i > Len(path) THEN acc
    ELSE IF path[i].verb = "kMove_Verb"
    THEN SubpathLineVertices(Append(acc, 1), path, i + 1)
    ELSE SubpathLineVertices([acc EXCEPT ![Len(acc)] = @ + LineVerticesOf(path[i])],
                             path, i + 1)

RECURSIVE SumSeq(_)
SumSeq(q) == IF q = <<>> THEN 0 ELSE Head(q) + SumSeq(Tail(q))

\* The triples (fanCenter, prev, prev + 1) of a subpath whose fan centre is at
\* position center and which holds n line vertices: one for each vertex whose
\* predecessor is not the fan centre.
FanTriples(center, n) ==
    [i \in 1..(IF n > 2 THEN 3 * (n - 2) ELSE 0) |->
        CASE (i - 1) % 3 = 0 -> center
          [] (i - 1) % 3 = 1 -> center + 1 + ((i - 1) \div 3)
          [] OTHER -> center + 2 + ((i - 1) \div 3)]

RECURSIVE FanTriplesOfSubpaths(_, _)
FanTriplesOfSubpaths(counts, center) ==
    IF counts = <<>> THEN <<>>
    ELSE FanTriples(center, Head(counts))
         \o FanTriplesOfSubpaths(Tail(counts), center + Head(counts))

WithoutClose(path) == SelectSeq(path, LAMBDA v : v.verb # "kClose_Verb")

\* C17: createGeom and add_quad write indices only for an indexed batch; every
\* move after the first makes the current line-vertex position the fan centre;
\* a line or quad endpoint appends the triple (fanCenter, prev, prev + 1)
\* exactly when the vertex before it is not the fan centre, so a subpath of
\* n >= 1 line vertices adds 3 * max(0, n - 2) line indices; close verbs write
\* no vertex and no index.
C17_FanIndicesPerSubpath ==
    gOut.done =>
        LET g == gOut.geom
            counts == SubpathLineVertices(<<>>, gIn.path, 1)
            fresh == Buffers(gOut.worst.linePointCount, gOut.worst.quadPointCount)
        IN  /\ g.lineVertexCount = SumSeq(counts)
            /\ ~gIn.isIndexed => (g.lineIndices = <<>> /\ g.quadIndices = <<>>)
            /\ gIn.isIndexed =>
                  /\ LineIndexStream(g.lineIndices) = FanTriplesOfSubpaths(counts, 0)
                  /\ LineIndexCount(g.lineIndices)
                        = SumSeq([k \in 1..Len(counts) |->
                                     IF counts[k] > 2 THEN 3 * (counts[k] - 2) ELSE 0])
            /\ SameStreams(createGeom(fresh, WithoutClose(gIn.path), gIn.isIndexed), g)

C17_Witness ==
    /\ gOut.done
    /\ gIn.isIndexed
    /\ gIn.path = <<kMove, kLine, kMove, kCubic(2)>>
    /\ LineIndexStream(gOut.geom.lineIndices) = <<2, 3, 4>>

\* C18: onGetOptimizations returns kIgnoreCoverage_OptFlag exactly when the XP
\* has a hardware blend equation and coverage is known solid white, and
\* kCanTweakAlphaForCoverage_OptFlag exactly when every colour stage multiplies
\* its input; a shader-fallback XP never gets kIgnoreCoverage_OptFlag, and no
\* other flag is returned.
C18_OptFlags ==
    xpOut.op = "onGetOptimizations" =>
        LET p == xpOut.xp
            a == xpOut.analysis
            flags == xpOut.flags
        IN  /\ flags \subseteq {"kIgnoreCoverage_OptFlag", "kCanTweakAlphaForCoverage_OptFlag"}
            /\ ("kIgnoreCoverage_OptFlag" \in flags)
                  <=> (p.fHWBlendEquation # kNoHWEquation /\ a.isSolidWhite)
            /\ ("kCanTweakAlphaForCoverage_OptFlag" \in flags) <=> a.allStagesMultiplyInput
            /\ p.fHWBlendEquation = kNoHWEquation => "kIgnoreCoverage_OptFlag" \notin flags
            /\ p.fWillReadDstColor => "kIgnoreCoverage_OptFlag" \notin flags

C18_Witness ==
    /\ xpOut.op = "onGetOptimizations"
    /\ xpOut.xp.fHWBlendEquation # kNoHWEquation
    /\ xpOut.analysis.isSolidWhite
    /\ xpOut.analysis.allStagesMultiplyInput
    /\ xpOut.flags = {"kIgnoreCoverage_OptFlag", "kCanTweakAlphaForCoverage_OptFlag"}

\* C19: in every op list that Make and onCombineIfPossible can produce, an
\* indexed batch holds at most 21845 worst-case line vertices and at most 21845
\* quad vertices, so its line-index reservation 3 * fMaxLineVertices is at most
\* 65535 and every position it indexes fits in 16 bits; a batch over the limit
\* is non-indexed and holds one path, and no merge it takes part in succeeds.
C19_IndexedBatchesFitSixteenBits ==
    /\ kMaxIndexedVertexCnt = 21845
    /\ \A i \in 1..Len(ops) :
          LET op == ops[i]
              over == \/ op.fMaxLineVertices > kMaxIndexedVertexCnt
                      \/ op.fMaxQuadVertices > kMaxIndexedVertexCnt
          IN  /\ op.fIsIndexed =>
                    /\ op.fMaxLineVertices <= 21845
                    /\ op.fMaxQuadVertices <= 21845
                    /\ 3 * op.fMaxLineVertices <= SK_MaxU16
                    /\ (op.fMaxLineVertices = 0
                        \/ U16(op.fMaxLineVertices - 1) = op.fMaxLineVertices - 1)
              /\ Len(op.fPaths) > 1 => op.fIsIndexed
              /\ over => (~op.fIsIndexed /\ Len(op.fPaths) = 1)
    /\ last.op = "onCombineIfPossible" =>
          ((\E b \in {last.this, last.that} :
                \/ b.fMaxLineVertices > kMaxIndexedVertexCnt
                \/ b.fMaxQuadVertices > kMaxIndexedVertexCnt)
           => (~last.result /\ last.thisAfter = last.this /\ last.thatAfter = last.that))

C19_Witness ==
    /\ last.op = "onCombineIfPossible"
    /\ last.canCombine
    /\ last.this.fViewMatrix = last.that.fViewMatrix
    /\ last.that.fMaxQuadVertices > kMaxIndexedVertexCnt
    /\ ~last.that.fIsIndexed
    /\ last.this.fPaths[1].fPath.verbs = Triangle
    /\ ~last.result
    /\ Len(ops) = 2

\* C20: whenever internalDrawPath returns false, no draw op was added to the
\* render target context during the call (no stencil pass is left submitted
\* without its cover pass).
C20_FalseAddsNoOp ==
    (last.op \in {"onDrawPath", "onStencilPath"} /\ ~last.out.result) =>
        (last.out.added = <<>> /\ ops = <<>>)

\* C21: for every caps and analysis, onWillReadDstColor answers true exactly
\* when the CustomXP that onCreateXferProcessor builds from the same inputs has
\* no hardware blend equation; every CustomXP the factory builds reads the
\* destination colour exactly when it has no hardware blend equation, so the
\* SkASSERT of createGLSLInstance holds.
C21_WillReadDstIffNoHWEquation ==
    /\ xpOut.op = "onCreateXferProcessor" =>
          /\ xpOut.willReadDst <=> (xpOut.result.fHWBlendEquation = kNoHWEquation)
          /\ xpOut.willReadDst <=> xpOut.result.fWillReadDstColor
          /\ xpOut.result = xp
    /\ xp # NoXP =>
          (xp.fWillReadDstColor <=> (xp.fHWBlendEquation = kNoHWEquation))
    /\ xpOut.op = "createGLSLInstance" => xpOut.assertHolds

C21_Witness ==
    /\ xpOut.op = "createGLSLInstance"
    /\ xpOut.xp.fHWBlendEquation # kNoHWEquation
    /\ ~xpOut.xp.fWillReadDstColor
    /\ xpOut.assertHolds

\* C22: every batch that Make and successful merges produce holds at most three
\* worst-case quad vertices per worst-case line vertex; a batch without line
\* vertices has no quad vertices, so the SkASSERT on the early return of
\* onPrepareDraws holds.
C22_QuadCountWithinThreeTimesLineCount ==
    /\ \A i \in 1..Len(ops) :
          /\ ops[i].fMaxQuadVertices <= 3 * ops[i].fMaxLineVertices
          /\ ops[i].fMaxLineVertices >= 0
          /\ ops[i].fMaxLineVertices = 0 => ops[i].fMaxQuadVertices = 0
    /\ (last.op = "Make" /\ last.result # nullptr) =>
          last.result.fMaxQuadVertices <= 3 * last.result.fMaxLineVertices
    /\ (last.op = "onPrepareDraws" /\ last.batch.fMaxLineVertices = 0) =>
          /\ last.batch.fMaxQuadVertices = 0
          /\ last.out.assertsHold
          /\ last.out.returned

C22_Witness ==
    /\ last.op = "onPrepareDraws"
    /\ last.batch.fMaxLineVertices = 0
    /\ Len(last.batch.fPaths) = 2
    /\ last.out.assertsHold
    /\ \E i \in 1..Len(ops) : ops[i] = last.batch

\* The line vertices of each subpath of a batch, over its paths in order.
RECURSIVE BatchSubpathLineVertices(_, _)
BatchSubpathLineVertices(op, i) ==
    IF i > Len(op.fPaths) THEN <<>>
    ELSE SubpathLineVertices(<<>>, op.fPaths[i].fPath.verbs, 1)
         \o BatchSubpathLineVertices(op, i + 1)

\* The positions of the fan centres: the first line vertex of every subpath.
FanCenters(counts) == {SumSeq(SubSeq(counts, 1, k - 1)) : k \in 1..Len(counts)}

\* C23: in an indexed batch every line triple (fanCenter, prev, prev + 1) is
\* written with the vertex prev + 1: its indices are below the number of line
\* vertices written so far and not below the fan centre of the subpath being
\* built, so no triangle reaches an unwritten vertex, an earlier subpath or an
\* earlier merged path; the quad indices are 0, 1, 2, ... in order, as many as
\* there are quad vertices.
C23_IndicesStayInsideTheirSubpath ==
    (last.op = "onPrepareDraws" /\ last.batch.fIsIndexed) =>
        LET g == last.out.geom
            runs == g.lineIndices
            qruns == g.quadIndices
            centers == FanCenters(BatchSubpathLineVertices(last.batch, 1))
        IN  /\ \A k \in 1..Len(runs) :
                  LET fan == runs[k].fan
                      lowest == runs[k].first
                      highest == runs[k].first + runs[k].n
                  IN  /\ runs[k].n >= 1
                      /\ fan \in centers
                      /\ fan < lowest
                      /\ highest < g.lineVertexCount
                      /\ highest <= SK_MaxU16
                      /\ \A s \in centers : ~(fan < s /\ s <= highest)
                      /\ k > 1 => runs[k - 1].first + runs[k - 1].n <= lowest
            /\ \A k \in 1..Len(qruns) :
                  /\ qruns[k].first = QuadIndexCount(SubSeq(qruns, 1, k - 1))
                  /\ qruns[k].first + qruns[k].n - 1 <= SK_MaxU16
            /\ QuadIndexCount(qruns) = g.quadVertexCount
            /\ (g.lineVertexCount <= 8 /\ g.quadVertexCount <= 9) =>
                  /\ \A i \in 1..Len(LineIndexStream(runs)) :
                        LineIndexStream(runs)[i] < g.lineVertexCount
                  /\ QuadIndexStream(qruns) = [i \in 1..g.quadVertexCount |-> i - 1]

C23_Witness ==
    /\ last.op = "onPrepareDraws"
    /\ last.batch.fIsIndexed
    /\ Len(last.batch.fPaths) = 2
    /\ last.batch.fPaths[1].fPath.verbs = Triangle
    /\ last.batch.fPaths[2].fPath.verbs = Triangle
    /\ LineIndexStream(last.out.geom.lineIndices) = <<0, 1, 2, 0, 2, 3, 4, 5, 6, 4, 6, 7>>

\* C24: a call of onCombineIfPossible that returns false leaves the absorbing
\* batch's paths, bounds, fIsIndexed, fMaxLineVertices and fMaxQuadVertices as
\* they were, and every call leaves the other batch's fields as they were;
\* onPrepareDraws changes no field of any batch.
C24_FrameOfCombineAndPrepare ==
    [][/\ last'.op = "onPrepareDraws" =>
             (ops' = ops /\ \E i \in 1..Len(ops') : ops'[i] = last'.batch)
       /\ last'.op = "onCombineIfPossible" =>
             /\ last'.thatAfter = last'.that
             /\ ~last'.result => (last'.thisAfter = last'.this /\ ops' = ops)
             /\ last'.result =>
                   /\ Len(ops') = Len(ops) - 1
                   /\ \E i \in 1..Len(ops') : ops'[i] = last'.thisAfter
                   /\ last'.thisAfter.fViewMatrix = last'.this.fViewMatrix]_vars

C24_Witness ==
    /\ last.op = "onCombineIfPossible"
    /\ last.canCombine
    /\ last.this.fViewMatrix = last.that.fViewMatrix
    /\ ~last.result
    /\ last.this.bounds # last.that.bounds
    /\ join(last.this.bounds, last.that.bounds) # last.this.bounds
    /\ last.thisAfter = last.this
    /\ Len(ops) = 2

====
